---- MODULE Spec2Model ----
(***************************************************************************)
(* frist: window membership of a target instant relative to a reference   *)
(* instant (UnitName.in_ and the decorated Cal/Biz in_* methods), and the *)
(* fractional business/working-day accumulation under a calendar policy.  *)
(*                                                                         *)
(* An instant is a zone-naive datetime [date, sec, us]: the proleptic      *)
(* Gregorian ordinal of its date (date.toordinal()), the second of the     *)
(* day (hour*3600 + minute*60 + second) and the microsecond.               *)
(* Fractions of a business day are exact rationals over the policy's       *)
(* business-day length (see Amount below), not rounded floats.             *)
(***************************************************************************)
EXTENDS Integers, Sequences, FiniteSets, TLC

VARIABLES target_dt, ref_dt, cal_policy, call, result

vars == <<target_dt, ref_dt, cal_policy, call, result>>

\* ------------------------------------------------------------------ bounds
\* Largest window offset a query is made with (offsets range over
\* -MaxOffset .. MaxOffset, exclusive ends up to MaxOffset + 1).
MaxOffset == 2

\* Number of consecutive calendar days, from Monday 2024-01-01, that the
\* business-day instants are drawn from.
NumDays == 6

\* ------------------------------------------------- datetime (date part)
IsLeap(year) == year % 4 = 0 /\ (year % 100 # 0 \/ year % 400 = 0)

DaysBeforeYear(year) ==
    LET y == year - 1 IN y * 365 + (y \div 4) - (y \div 100) + (y \div 400)

DaysInMonth(year, month) ==
    IF month = 2 THEN (IF IsLeap(year) THEN 29 ELSE 28)
    ELSE IF month \in {4, 6, 9, 11} THEN 30 ELSE 31

DaysBeforeMonth(year, month) ==
    LET cum == <<0, 31, 59, 90, 120, 151, 181, 212, 243, 273, 304, 334>>
    IN cum[month] + (IF month > 2 /\ IsLeap(year) THEN 1 ELSE 0)

\* date(year, month, day).toordinal()
Ymd2Ord(year, month, day) ==
    DaysBeforeYear(year) + DaysBeforeMonth(year, month) + day

\* date.year, date.month, date.day of an ordinal: the 400-, 100-, 4- and
\* 1-year cycles of the proleptic Gregorian calendar
YearOf(ord) ==
    LET n0 == ord - 1
        n400 == n0 \div 146097
        r400 == n0 % 146097
        n100 == r400 \div 36524
        r100 == r400 % 36524
        n4 == r100 \div 1461
        n1 == (r100 % 1461) \div 365
        year == n400 * 400 + 1 + n100 * 100 + n4 * 4 + n1
    IN IF n1 = 4 \/ n100 = 4 THEN year - 1 ELSE year

MonthOf(ord) ==
    LET y == YearOf(ord)
        n == ord - DaysBeforeYear(y)
    IN CHOOSE m \in 1 .. 12 :
         DaysBeforeMonth(y, m) < n /\ n <= DaysBeforeMonth(y, m) + DaysInMonth(y, m)

DayOf(ord) ==
    LET y == YearOf(ord) IN ord - DaysBeforeYear(y) - DaysBeforeMonth(y, MonthOf(ord))

\* date.weekday(): Monday = 0 .. Sunday = 6
Weekday(ord) == (ord + 6) % 7

\* ------------------------------------------------- datetime (time part)
DT(ord, sec, us) == [date |-> ord, sec |-> sec, us |-> us]

\* datetime(y, m, d, hh, mm, ss, us)
MkDT(y, m, d, hh, mm, ss, us) == DT(Ymd2Ord(y, m, d), hh * 3600 + mm * 60 + ss, us)

\* datetime comparison: a < b, a <= b
DtLt(a, b) ==
    \/ a.date < b.date
    \/ a.date = b.date /\ a.sec < b.sec
    \/ a.date = b.date /\ a.sec = b.sec /\ a.us < b.us

DtLe(a, b) == a = b \/ DtLt(a, b)

\* dt + timedelta(seconds = n)
AddSeconds(d, n) ==
    LET t == d.sec + n
    IN DT(d.date + (t \div 86400), t % 86400, d.us)

\* dt + timedelta(days = n)
AddDays(d, n) == DT(d.date + n, d.sec, d.us)

\* dt + timedelta(microseconds = -1)
MinusOneMicrosecond(d) ==
    IF d.us > 0 THEN DT(d.date, d.sec, d.us - 1)
    ELSE LET e == AddSeconds(d, -1) IN DT(e.date, e.sec, 999999)

\* dt.replace(microsecond=0), dt.replace(second=0, microsecond=0),
\* dt.replace(minute=0, second=0, microsecond=0)
ReplaceToSecond(d) == DT(d.date, d.sec, 0)
ReplaceToMinute(d) == DT(d.date, d.sec - (d.sec % 60), 0)
ReplaceToHour(d) == DT(d.date, d.sec - (d.sec % 3600), 0)

\* ------------------------------------------------------ _util.py
\* in_half_open, in_half_open_date (integers, date ordinals)
in_half_open(start, value, end) == start <= value /\ value < end

in_half_open_date(start, value, end) == start <= value /\ value < end

\* in_half_open_dt with the end bound compared by <= (a closed interval)
in_half_open_dt_closed_end(start, value, end) == DtLe(start, value) /\ DtLe(value, end)

\* in_half_open_dt (datetimes)
in_half_open_dt(start, value, end) == DtLe(start, value) /\ DtLt(value, end)

\* ------------------------------------------------------ results of a call
Returned(v) == [kind |-> "return", val |-> v]

\* ValueError whose message names the function and interpolates start and end
RaisedInvalidWindow(who, start, end) ==
    [kind |-> "ValueError", val |-> [who |-> who, start |-> start, end |-> end]]

\* An optional argument: {} is None, {v} is the value v.
None == {}
Some(v) == {v}
ValueOf(opt) == CHOOSE v \in opt : TRUE

\* ------------------------------------------------------ units/_*.py
CalendarUnits == {"second", "minute", "hour", "day", "week", "month", "quarter", "year"}

\* SecondUnit._in_impl
SecondInImpl(target, ref, start, end) ==
    LET start_second == ReplaceToSecond(AddSeconds(ref, start))
        end_second == ReplaceToSecond(AddSeconds(ref, end))
    IN in_half_open_dt(start_second, target, end_second)

\* A variant of the minute window whose bounds keep the reference's
\* seconds and microseconds.
MinuteInImpl_untruncated(target, ref, start, end) ==
    in_half_open_dt(AddSeconds(ref, start * 60), target, AddSeconds(ref, end * 60))

\* MinuteUnit._in_impl / Cal.in_minutes
MinuteInImpl(target, ref, start, end) ==
    LET start_minute == ReplaceToMinute(AddSeconds(ref, start * 60))
        end_minute == ReplaceToMinute(AddSeconds(ref, end * 60))
    IN in_half_open_dt(start_minute, target, end_minute)

\* HourUnit._in_impl / Cal.in_hours
HourInImpl(target, ref, start, end) ==
    LET start_hour == ReplaceToHour(AddSeconds(ref, start * 3600))
        end_hour == ReplaceToHour(AddSeconds(ref, end * 3600))
    IN in_half_open_dt(start_hour, target, end_hour)

\* DayUnit._in_impl / Cal.in_days
DayInImpl(target, ref, start, end) ==
    LET target_date == target.date
        start_date == AddDays(ref, start).date
        end_date == AddDays(ref, end).date
    IN in_half_open_date(start_date, target_date, end_date)

\* WeekUnit._in_impl / Cal.in_weeks (week_start = "monday", weekday 0)
WeekInImpl(target, ref, start, end) ==
    LET week_start_day == 0
        target_date == target.date
        base_date == ref.date
        days_since_week_start == (Weekday(base_date) - week_start_day) % 7
        current_week_start == base_date - days_since_week_start
        start_week_start == current_week_start + 7 * start
        end_week_exclusive == current_week_start + 7 * end
    IN in_half_open_date(start_week_start, target_date, end_week_exclusive)

\* A variant of the month index that leaves the year out.
MonthIndex_month_only(d) == MonthOf(d.date)

\* MonthUnit._month_index
MonthIndex(d) == YearOf(d.date) * 12 + MonthOf(d.date)

\* MonthUnit._in_impl / Cal.in_months
MonthInImpl(target, ref, start, end) ==
    LET target_idx == MonthIndex(target)
        start_idx == MonthIndex(ref) + start
        end_idx == MonthIndex(ref) + end
    IN in_half_open(start_idx, target_idx, end_idx)

\* QuarterUnit._in_impl / Cal.in_quarters
QuarterInImpl(target, ref, start, end) ==
    LET base_quarter == (MonthOf(ref.date) - 1) \div 3
        base_year == YearOf(ref.date)
        start_idx == base_year * 4 + base_quarter + start
        end_idx == base_year * 4 + base_quarter + end
        target_quarter == (MonthOf(target.date) - 1) \div 3
        target_idx == YearOf(target.date) * 4 + target_quarter
    IN in_half_open(start_idx, target_idx, end_idx)

\* YearUnit._in_impl / Cal.in_years
YearInImpl(target, ref, start, end) ==
    LET target_year == YearOf(target.date)
        base_year == YearOf(ref.date)
    IN in_half_open(base_year + start, target_year, base_year + end)

\* A variant of the fiscal year that starts it one month late (`>`).
fiscal_year_strict(d, fy_start_month) ==
    IF MonthOf(d.date) > fy_start_month THEN YearOf(d.date) ELSE YearOf(d.date) - 1

\* _fiscal_year(dt_, fy_start_month) / Biz.get_fiscal_year
fiscal_year(d, fy_start_month) ==
    IF MonthOf(d.date) >= fy_start_month THEN YearOf(d.date) ELSE YearOf(d.date) - 1

\* A variant of the fiscal quarter that ignores the start month.
fiscal_quarter_of_calendar_year(d, fy_start_month) ==
    ((MonthOf(d.date) - 1) \div 3) + 1

\* _fiscal_quarter(dt_, fy_start_month) / Biz.get_fiscal_quarter
fiscal_quarter(d, fy_start_month) ==
    LET month == MonthOf(d.date)
        offset == IF month >= fy_start_month
                  THEN (month - fy_start_month) % 12
                  ELSE (month + 12 - fy_start_month) % 12
    IN (offset \div 3) + 1

\* A variant of the fiscal-quarter window whose index is built on the
\* calendar year instead of the fiscal year.
FiscalQuarterInImpl_calendar_year(policy, target, ref, start, end) ==
    LET fy_start_month == policy.fiscal_year_start_month
        base_idx == YearOf(ref.date) * 4
                      + (fiscal_quarter(ref, fy_start_month) - 1)
        target_idx == YearOf(target.date) * 4
                      + (fiscal_quarter(target, fy_start_month) - 1)
    IN in_half_open(base_idx + start, target_idx, base_idx + end)

\* FiscalQuarterUnit._in_impl / Biz.in_fiscal_quarters
FiscalQuarterInImpl(policy, target, ref, start, end) ==
    LET fy_start_month == policy.fiscal_year_start_month
        base_idx == fiscal_year(ref, fy_start_month) * 4
                      + (fiscal_quarter(ref, fy_start_month) - 1)
        target_idx == fiscal_year(target, fy_start_month) * 4
                      + (fiscal_quarter(target, fy_start_month) - 1)
    IN in_half_open(base_idx + start, target_idx, base_idx + end)

\* FiscalYearUnit._in_impl / Biz.in_fiscal_years
FiscalYearInImpl(policy, target, ref, start, end) ==
    LET fy_start_month == policy.fiscal_year_start_month
        base_fy == fiscal_year(ref, fy_start_month)
        target_fy == fiscal_year(target, fy_start_month)
    IN in_half_open(base_fy + start, target_fy, base_fy + end)

FiscalUnits == {"fiscal_quarter", "fiscal_year"}

\* _in_impl of the unit named `unit`
InImpl(unit, policy, target, ref, start, end) ==
    CASE unit = "fiscal_quarter" -> FiscalQuarterInImpl(policy, target, ref, start, end)
      [] unit = "fiscal_year" -> FiscalYearInImpl(policy, target, ref, start, end)
      [] unit = "second" -> SecondInImpl(target, ref, start, end)
      [] unit = "minute" -> MinuteInImpl(target, ref, start, end)
      [] unit = "hour" -> HourInImpl(target, ref, start, end)
      [] unit = "day" -> DayInImpl(target, ref, start, end)
      [] unit = "week" -> WeekInImpl(target, ref, start, end)
      [] unit = "month" -> MonthInImpl(target, ref, start, end)
      [] unit = "quarter" -> QuarterInImpl(target, ref, start, end)
      [] unit = "year" -> YearInImpl(target, ref, start, end)

\* UnitName.in_ rejecting only start > end (an empty window start = end
\* is let through)
in_accepting_empty(unit, policy, target, ref, start, end) ==
    LET end_n == IF end = None THEN start + 1 ELSE ValueOf(end)
    IN IF start > end_n
       THEN RaisedInvalidWindow("in_", start, end_n)
       ELSE Returned(InImpl(unit, policy, target, ref, start, end_n))

\* UnitName.in_ normalising a missing end to start + 2
in_two_unit_default(unit, policy, target, ref, start, end) ==
    LET end_n == IF end = None THEN start + 2 ELSE ValueOf(end)
    IN IF start >= end_n
       THEN RaisedInvalidWindow("in_", start, end_n)
       ELSE Returned(InImpl(unit, policy, target, ref, start, end_n))

\* UnitName.in_(start, end=None)
in_(unit, policy, target, ref, start, end) ==
    LET end_n == IF end = None THEN start + 1 ELSE ValueOf(end)
    IN IF start >= end_n
       THEN RaisedInvalidWindow("in_", start, end_n)
       ELSE Returned(InImpl(unit, policy, target, ref, start, end_n))

\* verify_start_end wrapping Cal.in_minutes .. Cal.in_years and
\* Biz.in_fiscal_quarters, Biz.in_fiscal_years
verify_start_end(unit, policy, target, ref, start, end) ==
    LET end_fixed == IF end = None THEN start + 1 ELSE ValueOf(end)
    IN IF start >= end_fixed
       THEN RaisedInvalidWindow("verify_start_end", start, end_fixed)
       ELSE Returned(InImpl(unit, policy, target, ref, start, end_fixed))

\* The units Cal and Biz have a decorated in_* method for.
DecoratedUnits == (CalendarUnits \ {"second"}) \cup FiscalUnits

AllUnits == CalendarUnits \cup FiscalUnits

\* ------------------------------------------------------ _cal_policy.py
\* CalendarPolicy(): the dataclass defaults. Times of day are whole seconds
\* since midnight (dt.time(9, 0), dt.time(17, 0)); holidays are
\* "YYYY-MM-DD" strings, written <<year, month, day>>.
DefaultPolicy ==
    [fiscal_year_start_month |-> 1,
     workdays |-> {0, 1, 2, 3, 4},
     start_of_business |-> 9 * 3600,
     end_of_business |-> 17 * 3600,
     holidays |-> {}]

\* CalendarPolicy.is_workday (a weekday int, or the weekday() of a date)
is_workday(policy, weekday) == weekday \in policy.workdays

\* CalendarPolicy.is_holiday(date_str)
is_holiday(policy, date_str) == date_str \in policy.holidays

\* The values is_holiday is called with: a 'YYYY-MM-DD' string, a date, a
\* datetime.
StrValue(ymd) == [type |-> "str", val |-> ymd]
DateValue(ord) == [type |-> "date", val |-> ord]
DatetimeValue(d) == [type |-> "datetime", val |-> d]

\* policy.is_holiday(value) for a value of any of the three types:
\* `value in self.holidays` on a set of strings; a date or a datetime is
\* equal to no string.
is_holiday_of_value(policy, value) ==
    IF value.type = "str" THEN is_holiday(policy, value.val) ELSE FALSE

\* CalendarPolicy(fiscal_year_start_month=month): the dataclass stores the
\* field; there is no __post_init__.
NewCalendarPolicy(month) ==
    Returned([DefaultPolicy EXCEPT !.fiscal_year_start_month = month])

\* dt_obj.strftime('%Y-%m-%d'): the "YYYY-MM-DD" string of a date ordinal
StrfDate(ord) == <<YearOf(ord), MonthOf(ord), DayOf(ord)>>

\* policy.is_business_day(x): a workday that is not a holiday
is_business_day(policy, ord) ==
    is_workday(policy, Weekday(ord)) /\ ~is_holiday(policy, StrfDate(ord))

\* ------------------------------------------------------ day fractions
\* A float number of business days, kept exact: Amt(s, us) stands for
\* (s + us / 10^6) / BusinessSeconds(policy), with 0 <= us < 10^6.
Amt(s, us) == [s |-> s, us |-> us]

\* The length of the business day the amounts of a policy are counted in:
\* total_seconds when it is positive; otherwise fractions are only 0.0 and
\* 1.0 and the unit is 1.
BusinessSeconds(policy) ==
    LET total_seconds == policy.end_of_business - policy.start_of_business
    IN IF total_seconds > 0 THEN total_seconds ELSE 1

AmtZero == Amt(0, 0)

\* 1.0
AmtOne(policy) == Amt(BusinessSeconds(policy), 0)

\* a + b, a - b, -a, a < b, max(a, 0.0)
AmtAdd(a, b) ==
    LET us == a.us + b.us
    IN IF us < 1000000 THEN Amt(a.s + b.s, us) ELSE Amt(a.s + b.s + 1, us - 1000000)

AmtSub(a, b) ==
    LET us == a.us - b.us
    IN IF us >= 0 THEN Amt(a.s - b.s, us) ELSE Amt(a.s - b.s - 1, us + 1000000)

AmtNeg(a) == AmtSub(AmtZero, a)

AmtLt(a, b) == a.s < b.s \/ (a.s = b.s /\ a.us < b.us)

AmtLe(a, b) == a = b \/ AmtLt(a, b)

AmtMax0(a) == IF AmtLt(a, AmtZero) THEN AmtZero ELSE a

\* A variant of the fraction whose lower test is `< 0`: an instant exactly
\* at start_of_business falls through to the upper test.
business_day_fraction_open_start(policy, dt_obj) ==
    LET weekday == Weekday(dt_obj.date)
        date_str == StrfDate(dt_obj.date)
        total_seconds == policy.end_of_business - policy.start_of_business
        current_seconds == dt_obj.sec - policy.start_of_business
    IN IF is_holiday(policy, date_str) \/ ~is_workday(policy, weekday) THEN AmtZero
       ELSE IF current_seconds < 0 THEN AmtZero
       ELSE IF current_seconds >= total_seconds THEN AmtOne(policy)
       ELSE IF total_seconds > 0 THEN Amt(current_seconds, 0) ELSE AmtZero

\* CalendarPolicy.business_day_fraction(dt_obj)
business_day_fraction(policy, dt_obj) ==
    LET weekday == Weekday(dt_obj.date)
        date_str == StrfDate(dt_obj.date)
        total_seconds == policy.end_of_business - policy.start_of_business
        current_seconds == dt_obj.sec - policy.start_of_business
    IN IF is_holiday(policy, date_str) \/ ~is_workday(policy, weekday) THEN AmtZero
       ELSE IF current_seconds <= 0 THEN AmtZero
       ELSE IF current_seconds >= total_seconds THEN AmtOne(policy)
       ELSE IF total_seconds > 0 THEN Amt(current_seconds, 0) ELSE AmtZero

\* A variant of the working-day fraction gated by is_workday.
workday_fraction_at_gated(policy, dt_obj) ==
    LET total == policy.end_of_business - policy.start_of_business
        cur == Amt(dt_obj.sec - policy.start_of_business, dt_obj.us)
    IN IF ~is_workday(policy, Weekday(dt_obj.date)) THEN AmtZero
       ELSE IF AmtLe(cur, AmtZero) THEN AmtZero
       ELSE IF AmtLe(Amt(total, 0), cur) THEN AmtOne(policy)
       ELSE IF total > 0 THEN cur ELSE AmtZero

\* WorkingDayUnit.workday_fraction_at(dt_obj) / Biz._workday_fraction_at
workday_fraction_at(policy, dt_obj) ==
    LET total == policy.end_of_business - policy.start_of_business
        cur == Amt(dt_obj.sec - policy.start_of_business, dt_obj.us)
    IN IF AmtLe(cur, AmtZero) THEN AmtZero
       ELSE IF AmtLe(Amt(total, 0), cur) THEN AmtOne(policy)
       ELSE IF total > 0 THEN cur ELSE AmtZero

\* ------------------------------------------------------ accumulation
\* A variant of min that returns the later of two datetimes.
MinDt_taking_later(a, b) == IF DtLt(b, a) THEN a ELSE b

\* min(a, b) of two datetimes
MinDt(a, b) == IF DtLt(b, a) THEN b ELSE a

\* dt.datetime.combine(date, time)
Combine(ord, time) == DT(ord, time, 0)

\* A variant of the day check that applies the business-day check (holidays
\* excluded) to both accumulations.
DayCounts_business_only(mode, policy, ord) == is_business_day(policy, ord)

\* check_fn / frac_fn of the two accumulations
DayCounts(mode, policy, ord) ==
    IF mode = "business" THEN is_business_day(policy, ord)
    ELSE is_workday(policy, Weekday(ord))

FracAt(mode, policy, dt_obj) ==
    IF mode = "business" THEN business_day_fraction(policy, dt_obj)
    ELSE workday_fraction_at(policy, dt_obj)

\* A variant of the loop body without the max(..., 0.0) around the day's
\* difference of fractions.
DayContribution_unclamped(mode, policy, start, end, current) ==
    IF ~DayCounts(mode, policy, current) THEN AmtZero
    ELSE LET start_dt == IF current = start.date THEN start
                         ELSE Combine(current, policy.start_of_business)
             end_dt == IF current = start.date
                       THEN MinDt(end, Combine(current, policy.end_of_business))
                       ELSE IF current = end.date THEN end
                       ELSE Combine(current, policy.end_of_business)
         IN AmtSub(FracAt(mode, policy, end_dt), FracAt(mode, policy, start_dt))

\* A variant of the loop body that runs the window of the last day to the end
\* of business instead of to `end`.
DayContribution_full_last_day(mode, policy, start, end, current) ==
    IF ~DayCounts(mode, policy, current) THEN AmtZero
    ELSE LET start_dt == IF current = start.date THEN start
                         ELSE Combine(current, policy.start_of_business)
             end_dt == IF current = start.date
                       THEN MinDt(end, Combine(current, policy.end_of_business))
                       ELSE Combine(current, policy.end_of_business)
         IN AmtMax0(AmtSub(FracAt(mode, policy, end_dt), FracAt(mode, policy, start_dt)))

\* One pass of the loop body for the day `current`: what it adds to total.
DayContribution(mode, policy, start, end, current) ==
    IF ~DayCounts(mode, policy, current) THEN AmtZero
    ELSE LET start_dt == IF current = start.date THEN start
                         ELSE Combine(current, policy.start_of_business)
             end_dt == IF current = start.date
                       THEN MinDt(end, Combine(current, policy.end_of_business))
                       ELSE IF current = end.date THEN end
                       ELSE Combine(current, policy.end_of_business)
         IN AmtMax0(AmtSub(FracAt(mode, policy, end_dt), FracAt(mode, policy, start_dt)))

\* A variant of the loop that stops at the first day that does not count
\* instead of stepping over it.
RECURSIVE AccumulateFrom_stop_at_skipped(_, _, _, _, _, _)
AccumulateFrom_stop_at_skipped(mode, policy, start, end, current, total) ==
    IF current > end.date \/ ~DayCounts(mode, policy, current) THEN total
    ELSE AccumulateFrom_stop_at_skipped(
             mode, policy, start, end, current + 1,
             AmtAdd(total, DayContribution(mode, policy, start, end, current)))

\* while current.date() <= end.date(): total += ...; current += 1 day
RECURSIVE AccumulateFrom(_, _, _, _, _, _)
AccumulateFrom(mode, policy, start, end, current, total) ==
    IF current > end.date THEN total
    ELSE AccumulateFrom(mode, policy, start, end, current + 1,
                        AmtAdd(total, DayContribution(mode, policy, start, end, current)))

\* A variant of the signed count that walks from target to ref whatever
\* their order, without the swap and the sign.
SignedDays_no_swap(mode, policy, target, ref) ==
    IF target = ref THEN AmtZero
    ELSE AccumulateFrom(mode, policy, target, ref, target.date, AmtZero)

\* BizDayUnit.business_days() / WorkingDayUnit.working_days(): signed
SignedDays(mode, policy, target, ref) ==
    IF target = ref THEN AmtZero
    ELSE IF DtLt(ref, target)
         THEN AmtNeg(AccumulateFrom(mode, policy, ref, target, ref.date, AmtZero))
         ELSE AccumulateFrom(mode, policy, target, ref, target.date, AmtZero)

\* A variant of the helper without the target-after-ref check.
age_days_helper_unguarded(mode, policy, target, ref) ==
    Returned(AccumulateFrom(mode, policy, target, ref, target.date, AmtZero))

\* Biz._age_days_helper(check_fn, frac_fn): raises when target is after ref
age_days_helper(mode, policy, target, ref) ==
    IF DtLt(ref, target)
    THEN [kind |-> "ValueError",
          val |-> [who |-> "_age_days_helper", target |-> target, ref |-> ref]]
    ELSE Returned(AccumulateFrom(mode, policy, target, ref, target.date, AmtZero))

\* ------------------------------------------------------ stepping by days
\* The while loop of move_n_days: step one calendar day, count it if it
\* passes the day check, until `remaining` days are counted.
RECURSIVE MoveLoop(_, _, _, _, _)
MoveLoop(mode, policy, current, step, remaining) ==
    IF remaining = 0 THEN current
    ELSE LET next == current + step
         IN MoveLoop(mode, policy, next, step,
                     IF DayCounts(mode, policy, next) THEN remaining - 1 ELSE remaining)

\* A variant of move_n_days that counts every calendar day.
move_n_days_every_day(mode, policy, start_date, n) == start_date + n

\* BizDayUnit.move_n_days / WorkingDayUnit.move_n_days / Biz._move_n_days
move_n_days(mode, policy, start_date, n) ==
    IF n = 0 THEN start_date
    ELSE MoveLoop(mode, policy, start_date, IF n > 0 THEN 1 ELSE 0 - 1,
                  IF n > 0 THEN n ELSE 0 - n)

\* A variant of the day window that does not look at the target's own day.
DayCountInImpl_bounds_only(mode, policy, target, ref, start, end) ==
    in_half_open_date(move_n_days(mode, policy, ref.date, start), target.date,
                      move_n_days(mode, policy, ref.date, end))

\* BizDayUnit._in_impl / WorkingDayUnit._in_impl, and the bodies of
\* Biz.in_business_days / Biz.in_working_days
DayCountInImpl(mode, policy, target, ref, start, end) ==
    IF ~DayCounts(mode, policy, target.date) THEN FALSE
    ELSE in_half_open_date(move_n_days(mode, policy, ref.date, start), target.date,
                           move_n_days(mode, policy, ref.date, end))

\* UnitName.in_(start, end=None) on biz.biz_day / biz.work_day
day_count_in_(mode, policy, target, ref, start, end) ==
    LET end_n == IF end = None THEN start + 1 ELSE ValueOf(end)
    IN IF start >= end_n
       THEN RaisedInvalidWindow("in_", start, end_n)
       ELSE Returned(DayCountInImpl(mode, policy, target, ref, start, end_n))

\* verify_start_end wrapping Biz.in_business_days / Biz.in_working_days
day_count_verify_start_end(mode, policy, target, ref, start, end) ==
    LET end_fixed == IF end = None THEN start + 1 ELSE ValueOf(end)
    IN IF start >= end_fixed
       THEN RaisedInvalidWindow("verify_start_end", start, end_fixed)
       ELSE Returned(DayCountInImpl(mode, policy, target, ref, start, end_fixed))

\* ------------------------------------------------------ the stepping loop, by iteration
\* datetime.date.min and datetime.date.max, as ordinals
MinOrdinal == Ymd2Ord(1, 1, 1)
MaxOrdinal == Ymd2Ord(9999, 12, 31)

\* The OverflowError of date + timedelta past either end of the calendar
OverflowError == [kind |-> "OverflowError", val |-> "date value out of range"]

\* A variant of the date addition that stops at the ends of the calendar
\* instead of raising.
date_add_saturating(d, days) ==
    LET sum == d + days
    IN Returned(IF sum < MinOrdinal THEN MinOrdinal
                ELSE IF sum > MaxOrdinal THEN MaxOrdinal ELSE sum)

\* current + dt.timedelta(days=step)
date_add(d, days) ==
    LET sum == d + days
    IN IF MinOrdinal <= sum /\ sum <= MaxOrdinal THEN Returned(sum) ELSE OverflowError

\* step = 1 if n > 0 else -1; remaining = abs(n); current = start_date.
\* With n = 0 the date is returned before the loop: no iteration remains.
LoopEntry(start_date, n) ==
    [current |-> start_date,
     step |-> IF n > 0 THEN 1 ELSE 0 - 1,
     remaining |-> IF n > 0 THEN n ELSE 0 - n]

\* ------------------------------------------------------ inclusive windows
\* The two day-count units of Biz.
DayCountUnits == {"biz_day", "work_day"}

\* The day check a day-count unit steps and filters with.
ModeOfUnit(unit) == IF unit = "biz_day" THEN "business" ELSE "working"

\* unit.in_(start, end) on any unit engine
unit_in_(unit, policy, target, ref, start, end) ==
    IF unit \in DayCountUnits
    THEN day_count_in_(ModeOfUnit(unit), policy, target, ref, start, end)
    ELSE in_(unit, policy, target, ref, start, end)

InclusiveModes == {"both", "left", "right", "neither"}

\* start_offsets[inclusive], end_offsets[inclusive]
start_offsets(inclusive) == IF inclusive \in {"right", "neither"} THEN 1 ELSE 0
end_offsets(inclusive) == IF inclusive \in {"both", "right"} THEN 1 ELSE 0

\* A variant of between that applies the start offset to the end as well.
between_start_offset_twice(unit, policy, target, ref, start, end, inclusive) ==
    IF end = None
    THEN LET adj_start == start + start_offsets(inclusive)
         IN unit_in_(unit, policy, target, ref, adj_start, Some(adj_start + 1))
    ELSE unit_in_(unit, policy, target, ref,
                  start + start_offsets(inclusive),
                  Some(ValueOf(end) + start_offsets(inclusive)))

\* UnitName.between(start, end, inclusive)
between(unit, policy, target, ref, start, end, inclusive) ==
    IF end = None
    THEN LET adj_start == start + start_offsets(inclusive)
         IN unit_in_(unit, policy, target, ref, adj_start, Some(adj_start + 1))
    ELSE unit_in_(unit, policy, target, ref,
                  start + start_offsets(inclusive),
                  Some(ValueOf(end) + end_offsets(inclusive)))

\* UnitNamespace.between(start, end, inclusive) of _ranges.py: with end
\* omitted it is in_(start, start + 1) for every inclusive mode.
namespace_between(unit, policy, target, ref, start, end, inclusive) ==
    IF end = None
    THEN unit_in_(unit, policy, target, ref, start, Some(start + 1))
    ELSE unit_in_(unit, policy, target, ref,
                  start + start_offsets(inclusive),
                  Some(ValueOf(end) + end_offsets(inclusive)))

\* A variant of thru that passes `end` on unchanged.
thru_exclusive_end(unit, policy, target, ref, start, end) ==
    unit_in_(unit, policy, target, ref, start,
             Some(IF end = None THEN start ELSE ValueOf(end)))

\* UnitName.thru(start, end) / UnitNamespace._thru_impl
thru(unit, policy, target, ref, start, end) ==
    unit_in_(unit, policy, target, ref, start,
             Some((IF end = None THEN start ELSE ValueOf(end)) + 1))

\* ------------------------------------------------------ shortcuts
\* The ValueError of BizDayUnit / WorkingDayUnit is_yesterday, is_tomorrow
RaisedUnsupported(unit) ==
    [kind |-> "ValueError", val |-> [who |-> unit, unsupported |-> TRUE]]

\* The shortcut properties, as <<owner, unit>>: is_today / is_yesterday /
\* is_tomorrow of the day units, is_this_* / is_last_* / is_next_* of Cal,
\* and the business, working and fiscal ones of Biz.
Shortcuts ==
    ({"unit"} \X {"day", "biz_day", "work_day"})
    \cup ({"Cal"} \X {"day", "week", "month", "quarter", "year"})
    \cup ({"Biz"} \X {"biz_day", "work_day", "fiscal_quarter", "fiscal_year"})

\* A variant in which every shortcut delegates to in_(k).
shortcut_all_delegating(owner, unit, policy, target, ref, k) ==
    unit_in_(unit, policy, target, ref, k, None)

\* The shortcut of `owner` on `unit` for offset k (-1 last/yesterday,
\* 0 this/today, 1 next/tomorrow)
shortcut(owner, unit, policy, target, ref, k) ==
    CASE owner = "unit" /\ unit \in DayCountUnits /\ k # 0 -> RaisedUnsupported(unit)
      [] owner = "Cal" -> verify_start_end(unit, policy, target, ref, k, None)
      [] OTHER -> unit_in_(unit, policy, target, ref, k, None)

\* ------------------------------------------------------ calendar windows
\* The instant at which the k-th window of a calendar unit, counted from
\* the window holding r, begins: the calendar's own boundary, not computed
\* by the code under test.
WindowStart(unit, r, k) ==
    LET y == YearOf(r.date)
        m == MonthOf(r.date)
        midnight(ord) == DT(ord, 0, 0)
        month0 == y * 12 + (m - 1) + k
        quarter0 == y * 4 + ((m - 1) \div 3) + k
    IN CASE unit = "second" -> AddSeconds(DT(r.date, r.sec, 0), k)
         [] unit = "minute" -> AddSeconds(DT(r.date, (r.sec \div 60) * 60, 0), 60 * k)
         [] unit = "hour" -> AddSeconds(DT(r.date, (r.sec \div 3600) * 3600, 0), 3600 * k)
         [] unit = "day" -> midnight(r.date + k)
         [] unit = "week" -> midnight(r.date - Weekday(r.date) + 7 * k)
         [] unit = "month" -> midnight(Ymd2Ord(month0 \div 12, (month0 % 12) + 1, 1))
         [] unit = "quarter" ->
              midnight(Ymd2Ord(quarter0 \div 4, 3 * (quarter0 % 4) + 1, 1))
         [] unit = "year" -> midnight(Ymd2Ord(y + k, 1, 1))

\* Reference instants of the calendar queries: the last minute of a leap
\* year, the first instant of a month, and a mid-week noon.
CalRefs ==
    {MkDT(2024, 12, 31, 23, 59, 30, 500000),
     MkDT(2024, 3, 1, 0, 0, 0, 0),
     MkDT(2025, 1, 1, 12, 0, 0, 0)}

Offsets == (0 - MaxOffset) .. MaxOffset

\* Target instants probed against reference r: the reference itself, and
\* for every unit the first instant of each window near r and the instant
\* one microsecond before it (the last instant of the window before).
Probes(r) ==
    {r} \cup
    UNION {{WindowStart(u, r, k), MinusOneMicrosecond(WindowStart(u, r, k))} :
             u \in CalendarUnits, k \in (0 - MaxOffset - 1) .. (MaxOffset + 1)}

\* The optional `end` arguments a query is made with.
EndArgs == {None} \cup {Some(e) : e \in (0 - MaxOffset) .. (MaxOffset + 1)}

NoCall == [op |-> "none"]
NoResult == [kind |-> "none"]

\* Chrono(target_time, reference_time, policy): the pair and the policy are
\* fixed at construction; no query has been made.
InitCal ==
    /\ ref_dt \in CalRefs
    /\ target_dt \in Probes(ref_dt)
    /\ cal_policy = [DefaultPolicy EXCEPT !.fiscal_year_start_month = 4]
    /\ call = NoCall
    /\ result = NoResult

\* unit.in_(start, end) on a unit of Cal or Biz. The object is immutable
\* and a query is pure, so a behaviour makes one query on the pair it built.
UnitIn(unit, start, end) ==
    /\ call = NoCall
    /\ call' = [op |-> "in_", unit |-> unit, start |-> start, end |-> end]
    /\ result' = in_(unit, cal_policy, target_dt, ref_dt, start, end)
    /\ UNCHANGED <<target_dt, ref_dt, cal_policy>>

\* cal.in_minutes(start, end) .. cal.in_years(start, end),
\* biz.in_fiscal_quarters(start, end), biz.in_fiscal_years(start, end)
DecoratedIn(unit, start, end) ==
    /\ call = NoCall
    /\ call' = [op |-> "decorated", unit |-> unit, start |-> start, end |-> end]
    /\ result' = verify_start_end(unit, cal_policy, target_dt, ref_dt, start, end)
    /\ UNCHANGED <<target_dt, ref_dt, cal_policy>>

NextCal ==
    \/ \E u \in AllUnits, s \in Offsets, e \in EndArgs : UnitIn(u, s, e)
    \/ \E u \in DecoratedUnits, s \in Offsets, e \in EndArgs : DecoratedIn(u, s, e)

SpecCal == InitCal /\ [][NextCal]_vars

\* ------------------------------------------------------ business days
\* Times of day the business-day instants are drawn from: before, at,
\* inside (one with a fraction of a second) and after the default hours.
BizTimes ==
    {<<8 * 3600, 0>>, <<9 * 3600, 0>>, <<12 * 3600, 0>>, <<12 * 3600, 500000>>,
     <<15 * 3600, 0>>, <<17 * 3600, 0>>, <<18 * 3600 + 1800, 0>>}

\* Monday 2024-01-01 and the days after it
BizDates == {Ymd2Ord(2024, 1, 1) + i : i \in 0 .. (NumDays - 1)}

BizInstants == {DT(d, t[1], t[2]) : d \in BizDates, t \in BizTimes}

\* Holiday strings a policy may carry: Wednesday 2024-01-03, Thursday 2024-01-04
HolidayCandidates == {<<2024, 1, 3>>, <<2024, 1, 4>>}

\* Workdays and business hours (start, end) a policy may carry: the default
\* Monday-Friday 09:00-17:00; Tuesday/Thursday/Saturday; a zero-length day
\* 09:00-09:00; an inverted day 17:00-09:00 (the dataclass validates
\* neither).
BizShapes ==
    {<<{0, 1, 2, 3, 4}, 9 * 3600, 17 * 3600>>,
     <<{1, 3, 5}, 9 * 3600, 17 * 3600>>,
     <<{0, 1, 2, 3, 4}, 9 * 3600, 9 * 3600>>,
     <<{0, 1, 2, 3, 4}, 17 * 3600, 9 * 3600>>}

BizPolicies ==
    {[DefaultPolicy EXCEPT !.workdays = p[1],
                           !.start_of_business = p[2],
                           !.end_of_business = p[3],
                           !.holidays = hs] :
       p \in BizShapes, hs \in SUBSET HolidayCandidates}

\* Biz(target_dt, ref_dt, policy)
InitBiz ==
    /\ target_dt \in BizInstants
    /\ ref_dt \in BizInstants
    /\ cal_policy \in BizPolicies
    /\ call = NoCall
    /\ result = NoResult

\* biz.biz_day.business_days()
UnitBusinessDays ==
    /\ call = NoCall
    /\ call' = [op |-> "biz_day.business_days"]
    /\ result' = Returned(SignedDays("business", cal_policy, target_dt, ref_dt))
    /\ UNCHANGED <<target_dt, ref_dt, cal_policy>>

\* biz.work_day.working_days()
UnitWorkingDays ==
    /\ call = NoCall
    /\ call' = [op |-> "work_day.working_days"]
    /\ result' = Returned(SignedDays("working", cal_policy, target_dt, ref_dt))
    /\ UNCHANGED <<target_dt, ref_dt, cal_policy>>

\* biz.business_days (property)
BizBusinessDays ==
    /\ call = NoCall
    /\ call' = [op |-> "Biz.business_days"]
    /\ result' = age_days_helper("business", cal_policy, target_dt, ref_dt)
    /\ UNCHANGED <<target_dt, ref_dt, cal_policy>>

\* biz.working_days (property)
BizWorkingDays ==
    /\ call = NoCall
    /\ call' = [op |-> "Biz.working_days"]
    /\ result' = age_days_helper("working", cal_policy, target_dt, ref_dt)
    /\ UNCHANGED <<target_dt, ref_dt, cal_policy>>

\* biz.cal_policy.business_day_fraction(biz.target_dt)
BusinessDayFraction ==
    /\ call = NoCall
    /\ call' = [op |-> "business_day_fraction"]
    /\ result' = Returned(business_day_fraction(cal_policy, target_dt))
    /\ UNCHANGED <<target_dt, ref_dt, cal_policy>>

NextBiz ==
    \/ UnitBusinessDays
    \/ UnitWorkingDays
    \/ BizBusinessDays
    \/ BizWorkingDays
    \/ BusinessDayFraction

SpecBiz == InitBiz /\ [][NextBiz]_vars

\* ------------------------------------------------------ policy queries
\* Times of day of the policy queries: around the start of business to the
\* microsecond and the second, inside the day, at its end and after it.
PolTimes ==
    {<<8 * 3600, 0>>, <<9 * 3600, 0>>, <<9 * 3600, 500000>>, <<9 * 3600 + 1, 0>>,
     <<12 * 3600, 0>>, <<12 * 3600, 500000>>, <<17 * 3600, 0>>,
     <<18 * 3600 + 1800, 0>>}

\* The days from Monday 2024-01-01, and the first and the last day of
\* every month of 2024.
PolDates ==
    BizDates \cup
    {Ymd2Ord(2024, m, 1) : m \in 1 .. 12} \cup
    {Ymd2Ord(2024, m, DaysInMonth(2024, m)) : m \in 1 .. 12}

PolInstants == {DT(d, t[1], t[2]) : d \in PolDates, t \in PolTimes}

\* The business policies, and the default policy with every fiscal start
\* month.
PolPolicies ==
    BizPolicies \cup
    {[DefaultPolicy EXCEPT !.fiscal_year_start_month = m] : m \in 1 .. 12}

\* A policy and an instant to ask it about (the target of a Biz whose
\* reference is the same instant).
InitPol ==
    /\ target_dt \in PolInstants
    /\ ref_dt = target_dt
    /\ cal_policy \in PolPolicies
    /\ call = NoCall
    /\ result = NoResult

\* biz.work_day.workday_fraction_at(biz.target_dt)
WorkdayFractionAt ==
    /\ call = NoCall
    /\ call' = [op |-> "workday_fraction_at"]
    /\ result' = Returned(workday_fraction_at(cal_policy, target_dt))
    /\ UNCHANGED <<target_dt, ref_dt, cal_policy>>

\* The three forms of the target's calendar date as an is_holiday argument.
ValueForms == {"str", "date", "datetime"}

HolidayArg(form, d) ==
    CASE form = "str" -> StrValue(StrfDate(d.date))
      [] form = "date" -> DateValue(d.date)
      [] form = "datetime" -> DatetimeValue(d)

\* biz.cal_policy.is_holiday(value)
IsHoliday(form) ==
    /\ call = NoCall
    /\ call' = [op |-> "is_holiday", form |-> form]
    /\ result' = Returned(is_holiday_of_value(cal_policy, HolidayArg(form, target_dt)))
    /\ UNCHANGED <<target_dt, ref_dt, cal_policy>>

\* Fiscal start months a policy is constructed with.
MonthArgs == 0 .. 13

\* CalendarPolicy(fiscal_year_start_month=month): when construction
\* returns, the new object is the policy.
ConstructPolicy(month) ==
    /\ call = NoCall
    /\ call' = [op |-> "CalendarPolicy", fiscal_year_start_month |-> month]
    /\ result' = NewCalendarPolicy(month)
    /\ cal_policy' = IF NewCalendarPolicy(month).kind = "return"
                     THEN NewCalendarPolicy(month).val ELSE cal_policy
    /\ UNCHANGED <<target_dt, ref_dt>>

\* biz.fiscal_year
FiscalYearOfTarget ==
    /\ call = NoCall
    /\ call' = [op |-> "fiscal_year"]
    /\ result' = Returned(fiscal_year(target_dt, cal_policy.fiscal_year_start_month))
    /\ UNCHANGED <<target_dt, ref_dt, cal_policy>>

\* biz.fiscal_quarter
FiscalQuarterOfTarget ==
    /\ call = NoCall
    /\ call' = [op |-> "fiscal_quarter"]
    /\ result' = Returned(fiscal_quarter(target_dt, cal_policy.fiscal_year_start_month))
    /\ UNCHANGED <<target_dt, ref_dt, cal_policy>>

NextPol ==
    \/ BusinessDayFraction
    \/ \E form \in ValueForms : IsHoliday(form)
    \/ \E month \in MonthArgs : ConstructPolicy(month)
    \/ FiscalYearOfTarget
    \/ FiscalQuarterOfTarget
    \/ WorkdayFractionAt

SpecPol == InitPol /\ [][NextPol]_vars

\* ------------------------------------------------------ day windows
\* Dates of the stepping queries: the days from Monday 2024-01-01 through
\* the Monday after, Friday 2025-12-05 and Wednesday 2025-12-10.
MoveDates ==
    {Ymd2Ord(2024, 1, 1) + i : i \in 0 .. (NumDays + 1)} \cup
    {Ymd2Ord(2025, 12, 5), Ymd2Ord(2025, 12, 10)}

\* Holiday strings of the stepping policies: Wednesday 2024-01-03 and
\* Friday 2024-01-05.
MoveHolidays == {<<2024, 1, 3>>, <<2024, 1, 5>>}

\* Monday-Friday or Tuesday/Thursday/Saturday, default hours.
MovePolicies ==
    {[DefaultPolicy EXCEPT !.workdays = wd, !.holidays = hs] :
       wd \in {{0, 1, 2, 3, 4}, {1, 3, 5}}, hs \in SUBSET MoveHolidays}

\* Numbers of days to step by
MoveCounts == (0 - MaxOffset - 1) .. (MaxOffset + 1)

DayModes == {"business", "working"}

\* Biz(target_dt, ref_dt, policy) at noon of two of the dates
InitMove ==
    /\ target_dt \in {DT(d, 12 * 3600, 0) : d \in MoveDates}
    /\ ref_dt \in {DT(d, 12 * 3600, 0) : d \in MoveDates}
    /\ cal_policy \in MovePolicies
    /\ call = NoCall
    /\ result = NoResult

\* biz.biz_day.move_n_days(ref_dt.date(), n) / biz.work_day.move_n_days(..)
MoveNDays(mode, n) ==
    /\ call = NoCall
    /\ call' = [op |-> "move_n_days", mode |-> mode, n |-> n]
    /\ result' = Returned(move_n_days(mode, cal_policy, ref_dt.date, n))
    /\ UNCHANGED <<target_dt, ref_dt, cal_policy>>

\* biz.biz_day.in_(start, end) / biz.work_day.in_(start, end)
DayUnitIn(mode, start, end) ==
    /\ call = NoCall
    /\ call' = [op |-> "day_in_", mode |-> mode, start |-> start, end |-> end]
    /\ result' = day_count_in_(mode, cal_policy, target_dt, ref_dt, start, end)
    /\ UNCHANGED <<target_dt, ref_dt, cal_policy>>

\* biz.in_business_days(start, end) / biz.in_working_days(start, end)
DayDecoratedIn(mode, start, end) ==
    /\ call = NoCall
    /\ call' = [op |-> "day_decorated", mode |-> mode, start |-> start, end |-> end]
    /\ result' = day_count_verify_start_end(mode, cal_policy, target_dt, ref_dt,
                                             start, end)
    /\ UNCHANGED <<target_dt, ref_dt, cal_policy>>

NextMove ==
    \/ \E mode \in DayModes, n \in MoveCounts : MoveNDays(mode, n)
    \/ \E mode \in DayModes, s \in Offsets, e \in EndArgs : DayUnitIn(mode, s, e)
    \/ \E mode \in DayModes, s \in Offsets, e \in EndArgs : DayDecoratedIn(mode, s, e)

SpecMove == InitMove /\ [][NextMove]_vars

\* ------------------------------------------------------ distant windows
\* How many months before and after the reference the targets reach.
MaxMonths == 20

\* Reference instants: mid-March 2025 and the last minute of 2024.
IdxRefs ==
    {MkDT(2025, 3, 15, 12, 0, 0, 0), MkDT(2024, 12, 31, 23, 59, 30, 500000)}

\* The first and the last instant of every month within MaxMonths months
\* of the reference.
IdxTargets(r) ==
    UNION {{WindowStart("month", r, k),
            MinusOneMicrosecond(WindowStart("month", r, k + 1))} :
             k \in (0 - MaxMonths) .. MaxMonths}

\* Window offsets reaching more than a year back
IdxOffsets == {0 - 20, 0 - 18, 0 - 12, 0 - 1, 0, 1, 2}

IdxUnits == {"month", "quarter", "year"} \cup FiscalUnits

\* Biz(target_dt, ref_dt, policy) with every fiscal start month
InitIdx ==
    /\ ref_dt \in IdxRefs
    /\ target_dt \in IdxTargets(ref_dt)
    /\ cal_policy \in {[DefaultPolicy EXCEPT !.fiscal_year_start_month = m] :
                          m \in 1 .. 12}
    /\ call = NoCall
    /\ result = NoResult

NextIdx ==
    \/ \E u \in IdxUnits, s \in IdxOffsets, e \in IdxOffsets : UnitIn(u, s, Some(e))
    \/ \E u \in FiscalUnits, s \in IdxOffsets, e \in IdxOffsets :
         DecoratedIn(u, s, Some(e))

SpecIdx == InitIdx /\ [][NextIdx]_vars

\* ------------------------------------------------------ window sugar
SugarUnits == AllUnits \cup DayCountUnits

\* The pairs the sugar is tried on: a reference on the last minute of a
\* year and one on the first instant of a month.
SugarRefs ==
    {MkDT(2024, 12, 31, 23, 59, 30, 500000),
     MkDT(2024, 3, 1, 0, 0, 0, 0)}

SugarStarts == (0 - 1) .. 1

\* Targets: the reference, and the first instant of every unit's windows
\* from the one before the reference's to the second after it.
SugarTargets(r) ==
    {r} \cup {WindowStart(u, r, k) : u \in CalendarUnits, k \in (0 - 1) .. MaxOffset}

InitSugar ==
    /\ ref_dt \in SugarRefs
    /\ target_dt \in SugarTargets(ref_dt)
    /\ cal_policy = [DefaultPolicy EXCEPT !.fiscal_year_start_month = 4]
    /\ call = NoCall
    /\ result = NoResult

\* The `end` arguments tried with a start: omitted, and from one below the
\* start to two above it.
EndsNear(start) == {None} \cup {Some(start + d) : d \in (0 - 1) .. 2}

\* The classes that define between: UnitName of units/_base.py and the
\* UnitNamespace of _ranges.py.
BetweenClasses == {"UnitName", "UnitNamespace"}

\* unit.between(start, end, inclusive)
Between(class, unit, start, end, inclusive) ==
    /\ call = NoCall
    /\ call' = [op |-> "between", class |-> class, unit |-> unit, start |-> start,
                end |-> end, inclusive |-> inclusive]
    /\ result' = IF class = "UnitName"
                 THEN between(unit, cal_policy, target_dt, ref_dt, start, end, inclusive)
                 ELSE namespace_between(unit, cal_policy, target_dt, ref_dt,
                                        start, end, inclusive)
    /\ UNCHANGED <<target_dt, ref_dt, cal_policy>>

\* unit.thru(start, end)
Thru(unit, start, end) ==
    /\ call = NoCall
    /\ call' = [op |-> "thru", unit |-> unit, start |-> start, end |-> end]
    /\ result' = thru(unit, cal_policy, target_dt, ref_dt, start, end)
    /\ UNCHANGED <<target_dt, ref_dt, cal_policy>>

\* owner.is_<last|this|next>_<unit>, unit.is_<yesterday|today|tomorrow>
Shortcut(owner, unit, k) ==
    /\ call = NoCall
    /\ call' = [op |-> "shortcut", owner |-> owner, unit |-> unit, k |-> k]
    /\ result' = shortcut(owner, unit, cal_policy, target_dt, ref_dt, k)
    /\ UNCHANGED <<target_dt, ref_dt, cal_policy>>

NextSugar ==
    \/ \E c \in BetweenClasses, u \in SugarUnits, s \in SugarStarts, i \in InclusiveModes :
         \E e \in EndsNear(s) : Between(c, u, s, e, i)
    \/ \E u \in SugarUnits, s \in SugarStarts : \E e \in EndsNear(s) : Thru(u, s, e)
    \/ \E sc \in Shortcuts, k \in SugarStarts : Shortcut(sc[1], sc[2], k)

SpecSugar == InitSugar /\ [][NextSugar]_vars

\* ------------------------------------------------------ stepping, one iteration at a time
\* How far from an end of the calendar a reference date is taken.
StepReach == 4

\* Reference dates: Monday 2024-01-01, and dates within StepReach days of
\* date.max and of date.min.
StepDates ==
    {Ymd2Ord(2024, 1, 1), MaxOrdinal - StepReach, MaxOrdinal - 1,
     MinOrdinal + 1, MinOrdinal + StepReach}

\* Policies of the stepping loop: the dataclass takes any workday list, the
\* empty one and a single Saturday included; holidays on Tuesday 2024-01-02
\* or none.
StepPolicies ==
    {[DefaultPolicy EXCEPT !.workdays = wd, !.holidays = hs] :
       wd \in {{0, 1, 2, 3, 4}, {5}, {}}, hs \in {{}, {<<2024, 1, 2>>}}}

\* Biz(target_dt, ref_dt, policy) at noon, the target within a day of the
\* reference.
InitStep ==
    /\ ref_dt \in {DT(d, 12 * 3600, 0) : d \in StepDates}
    /\ target_dt \in {DT(ref_dt.date + i, 12 * 3600, 0) : i \in (0 - 1) .. 1}
    /\ cal_policy \in StepPolicies
    /\ call = NoCall
    /\ result = NoResult

\* The loop started at `date` for n days meets a counted day or an end of
\* the calendar within a few iterations: some weekday counts, or the step
\* heads for the end of the calendar that is within StepReach days.
WithinReach(policy, date, n) ==
    \/ n = 0
    \/ policy.workdays # {}
    \/ n > 0 /\ MaxOrdinal - date <= StepReach
    \/ n < 0 /\ date - MinOrdinal <= StepReach

LoopPcs == {"loop", "start_bound", "end_bound"}

\* biz_day.move_n_days(ref_dt.date(), n) / work_day.move_n_days(..) is
\* called: control stands before the first test of `while remaining > 0`.
StepMoveNDays(mode, n) ==
    /\ call = NoCall
    /\ WithinReach(cal_policy, ref_dt.date, n)
    /\ call' = [op |-> "move_n_days", mode |-> mode, start |-> n, end |-> n,
                pc |-> "loop", start_date |-> ref_dt.date,
                loop |-> LoopEntry(ref_dt.date, n)]
    /\ UNCHANGED <<target_dt, ref_dt, cal_policy, result>>

\* biz_day.in_(start, end) / work_day.in_(start, end) with start < end:
\* _in_impl answers False for a target that does not count, before any step.
StepUnitIn(mode, start, end) ==
    /\ call = NoCall
    /\ start < end
    /\ WithinReach(cal_policy, ref_dt.date, start)
    /\ WithinReach(cal_policy, ref_dt.date, end)
    /\ IF ~DayCounts(mode, cal_policy, target_dt.date)
       THEN /\ call' = [op |-> "unit.in_", mode |-> mode, start |-> start, end |-> end,
                        pc |-> "done", start_date |-> ref_dt.date,
                        loop |-> LoopEntry(ref_dt.date, 0)]
            /\ result' = Returned(FALSE)
       ELSE /\ call' = [op |-> "unit.in_", mode |-> mode, start |-> start, end |-> end,
                        pc |-> "start_bound", start_date |-> ref_dt.date,
                        loop |-> LoopEntry(ref_dt.date, start)]
            /\ result' = result
    /\ UNCHANGED <<target_dt, ref_dt, cal_policy>>

\* biz.in_business_days(start, end) / biz.in_working_days(start, end) with
\* start < end: both bounds are stepped to before the target is looked at.
StepBizIn(mode, start, end) ==
    /\ call = NoCall
    /\ start < end
    /\ WithinReach(cal_policy, ref_dt.date, start)
    /\ WithinReach(cal_policy, ref_dt.date, end)
    /\ call' = [op |-> "Biz.in_days", mode |-> mode, start |-> start, end |-> end,
                pc |-> "start_bound", start_date |-> ref_dt.date,
                loop |-> LoopEntry(ref_dt.date, start)]
    /\ UNCHANGED <<target_dt, ref_dt, cal_policy, result>>

\* One test of `while remaining > 0` and, when it passes, one run of the
\* body; when it fails, the return of the date and what the caller does
\* with it.
LoopIteration ==
    /\ call.op # "none"
    /\ call.pc \in LoopPcs
    /\ IF call.loop.remaining = 0
       THEN CASE call.pc = "loop" ->
                   /\ call' = [call EXCEPT !.pc = "done"]
                   /\ result' = Returned(call.loop.current)
              [] call.pc = "start_bound" ->
                   /\ call' = [call EXCEPT !.pc = "end_bound",
                                           !.start_date = call.loop.current,
                                           !.loop = LoopEntry(ref_dt.date, call.end)]
                   /\ result' = result
              [] call.pc = "end_bound" ->
                   /\ call' = [call EXCEPT !.pc = "done"]
                   /\ result' = Returned(/\ DayCounts(call.mode, cal_policy, target_dt.date)
                                         /\ in_half_open_date(call.start_date, target_dt.date,
                                                              call.loop.current))
       ELSE LET next == date_add(call.loop.current, call.loop.step)
            IN IF next.kind # "return"
               THEN /\ call' = [call EXCEPT !.pc = "done"]
                    /\ result' = next
               ELSE /\ call' = [call EXCEPT
                                  !.loop.current = next.val,
                                  !.loop.remaining =
                                      IF DayCounts(call.mode, cal_policy, next.val)
                                      THEN @ - 1 ELSE @]
                    /\ result' = result
    /\ UNCHANGED <<target_dt, ref_dt, cal_policy>>

NextStep ==
    \/ \E mode \in DayModes, n \in MoveCounts : StepMoveNDays(mode, n)
    \/ \E mode \in DayModes, s \in Offsets, e \in Offsets : StepUnitIn(mode, s, e)
    \/ \E mode \in DayModes, s \in Offsets, e \in Offsets : StepBizIn(mode, s, e)
    \/ LoopIteration

SpecStep == InitStep /\ [][NextStep]_vars

\* The interpreter runs a started call on: an iteration that can be taken is
\* taken.
SpecStepFair == SpecStep /\ WF_vars(LoopIteration)

\* ------------------------------------------------------ reading a result
Returns(r, v) == r.kind = "return" /\ r.val = v

SameOutcome(a, b) == a.kind = b.kind /\ a.val = b.val

IsWindowCall == call.op \in {"in_", "decorated"}

\* The exclusive end offset a window call asks for.
EndOf(c) == IF c.end = None THEN c.start + 1 ELSE ValueOf(c.end)

\* ------------------------------------------------------ claims
\* C1: for every calendar unit window (minute, hour, day, week, month,
\* quarter, year) and every offset pair start < end, in_(start, end) is true
\* for a target at the window's lower boundary instant, false for a target
\* at its upper boundary instant, and false for a target one unit before
\* the lower boundary.
C1_HalfOpenBoundaries ==
    (/\ IsWindowCall
     /\ call.unit \in CalendarUnits \ {"second"}
     /\ call.end # None
     /\ call.start < EndOf(call))
    => /\ target_dt = WindowStart(call.unit, ref_dt, call.start)
            => Returns(result, TRUE)
       /\ target_dt = WindowStart(call.unit, ref_dt, EndOf(call))
            => Returns(result, FALSE)
       /\ target_dt = WindowStart(call.unit, ref_dt, call.start - 1)
            => Returns(result, FALSE)

\* A month window queried with the target at its upper boundary instant.
C1_Witness ==
    /\ call.op = "in_"
    /\ call.unit = "month"
    /\ call.end # None
    /\ call.start < EndOf(call)
    /\ target_dt = WindowStart("month", ref_dt, EndOf(call))
    /\ Returns(result, FALSE)

\* C2: a window query (in_ on a unit, or a decorated Cal/Biz in_* method)
\* whose offsets satisfy start >= end after end-normalisation raises an
\* error reporting both the start and the end value; it never returns a
\* boolean (so never answers for swapped bounds).
C2_InvalidWindowRaises ==
    (IsWindowCall /\ call.start >= EndOf(call))
    => /\ result.kind = "ValueError"
       /\ result.val.start = call.start
       /\ result.val.end = EndOf(call)

\* A decorated method called with an empty window start = end.
C2_Witness ==
    /\ call.op = "decorated"
    /\ call.end = Some(call.start)
    /\ result.kind = "ValueError"

\* C3: for every unit and every start, in_(start) with end omitted returns
\* what in_(start, start + 1) returns.
C3_OmittedEndIsSingleUnit ==
    (call.op = "in_" /\ call.end = None)
    => SameOutcome(result,
                   in_(call.unit, cal_policy, target_dt, ref_dt,
                       call.start, Some(call.start + 1)))

\* in_(start) answered true: the target lies in the single unit `start`.
C3_Witness ==
    /\ call.op = "in_"
    /\ call.end = None
    /\ call.start # 0
    /\ Returns(result, TRUE)

\* The four day-count queries of the business specification.
UnitDayCountOps == {"biz_day.business_days", "work_day.working_days"}
BizDayCountOps == {"Biz.business_days", "Biz.working_days"}

\* check_fn / frac_fn pair a day-count query runs with.
ModeOf(op) ==
    IF op \in {"biz_day.business_days", "Biz.business_days"} THEN "business"
    ELSE "working"

C6_EqualInstantsGiveZero ==
    (call.op \in UnitDayCountOps \cup BizDayCountOps /\ target_dt = ref_dt)
    => Returns(result, AmtZero)

\* Biz.business_days on one instant strictly inside business hours on a
\* business day.
C6_Witness ==
    /\ call.op = "Biz.business_days"
    /\ target_dt = ref_dt
    /\ is_business_day(cal_policy, target_dt.date)
    /\ cal_policy.start_of_business < target_dt.sec
    /\ target_dt.sec < cal_policy.end_of_business
    /\ Returns(result, AmtZero)

\* The earlier and the later of target and reference.
Earlier == IF DtLt(ref_dt, target_dt) THEN ref_dt ELSE target_dt
Later == IF DtLt(ref_dt, target_dt) THEN target_dt ELSE ref_dt

\* The policy with its holiday set replaced.
WithHolidays(policy, hs) == [policy EXCEPT !.holidays = hs]

\* What a day-count query answers for the pair under another policy.
Recomputed(op, policy) ==
    IF op \in UnitDayCountOps
    THEN Returned(SignedDays(ModeOf(op), policy, target_dt, ref_dt))
    ELSE age_days_helper(ModeOf(op), policy, target_dt, ref_dt)

\* Monday 2024-01-01 12:00 to Thursday 2024-01-04 15:00 under the default
\* policy (Monday-Friday, 09:00-17:00, no holidays).
IsMondayNoonToThursdayAfternoon ==
    /\ target_dt = MkDT(2024, 1, 1, 12, 0, 0, 0)
    /\ ref_dt = MkDT(2024, 1, 4, 15, 0, 0, 0)
    /\ cal_policy = DefaultPolicy

\* 3.375 business days of the default policy (27/8 of a business day)
ThreeAndThreeEighths == Amt((27 * BusinessSeconds(DefaultPolicy)) \div 8, 0)

\* C7: for a target earlier than the reference and on a different calendar
\* day, with start_of_business < end_of_business, business_days equals
\* (1 - f(target)) if the target's day is a business day, plus 1 for every
\* business day strictly between the two dates, plus f(reference) if the
\* reference's day is a business day, f being business_day_fraction; and
\* Monday 12:00 to Thursday 15:00 under Monday-Friday 09:00-17:00 with no
\* holidays gives 3.375 for both business_days and working_days.
C7_MultiDayFormula ==
    /\ (/\ ModeOf(call.op) = "business"
        /\ call.op \in UnitDayCountOps \cup BizDayCountOps
        /\ cal_policy.start_of_business < cal_policy.end_of_business
        /\ DtLt(target_dt, ref_dt)
        /\ target_dt.date # ref_dt.date)
       => LET first == IF is_business_day(cal_policy, target_dt.date)
                       THEN AmtSub(AmtOne(cal_policy),
                                   business_day_fraction(cal_policy, target_dt))
                       ELSE AmtZero
              whole_days == {d \in (target_dt.date + 1) .. (ref_dt.date - 1) :
                            is_business_day(cal_policy, d)}
              interior == Amt(Cardinality(whole_days) * BusinessSeconds(cal_policy), 0)
              last == IF is_business_day(cal_policy, ref_dt.date)
                      THEN business_day_fraction(cal_policy, ref_dt)
                      ELSE AmtZero
          IN Returns(result, AmtAdd(AmtAdd(first, interior), last))
    /\ (/\ call.op \in UnitDayCountOps \cup BizDayCountOps
        /\ IsMondayNoonToThursdayAfternoon)
       => Returns(result, ThreeAndThreeEighths)

\* Biz.business_days on the Monday-noon to Thursday-afternoon pair.
C7_Witness ==
    /\ call.op = "Biz.business_days"
    /\ IsMondayNoonToThursdayAfternoon
    /\ Returns(result, ThreeAndThreeEighths)

\* C8: working_days (unit method and Biz property) for a target/reference
\* pair answers the same under the policy with any other holiday set.
C8_WorkingDaysIgnoreHolidays ==
    (call.op \in UnitDayCountOps \cup BizDayCountOps /\ ModeOf(call.op) = "working")
    => \A hs \in SUBSET HolidayCandidates :
         SameOutcome(result, Recomputed(call.op, WithHolidays(cal_policy, hs)))

\* working_days over a span holding a holiday on a workday: the answer
\* differs from the business-day count of the same pair.
C8_Witness ==
    /\ call.op = "work_day.working_days"
    /\ \E h \in cal_policy.holidays :
         /\ Earlier.date < Ymd2Ord(h[1], h[2], h[3])
         /\ Ymd2Ord(h[1], h[2], h[3]) < Later.date
         /\ is_workday(cal_policy, Weekday(Ymd2Ord(h[1], h[2], h[3])))
    /\ result.kind = "return"
    /\ result.val # SignedDays("business", cal_policy, target_dt, ref_dt)

\* What day `ord` adds to the business-day count of the pair under `policy`.
ContributionOf(policy, ord) ==
    IF ord \in Earlier.date .. Later.date
    THEN DayContribution("business", policy, Earlier, Later, ord)
    ELSE AmtZero

\* C9: adding one holiday date h to the policy changes business_days for
\* the pair by exactly what day h contributed without the holiday: the
\* contribution of h becomes 0 and that of every other day of the span is
\* unchanged.
C9_HolidayRemovesOnlyItsDay ==
    (/\ call.op \in UnitDayCountOps \cup BizDayCountOps
     /\ ModeOf(call.op) = "business"
     /\ result.kind = "return")
    => \A h \in HolidayCandidates \ cal_policy.holidays :
         LET with_h == WithHolidays(cal_policy, cal_policy.holidays \cup {h})
             h_ord == Ymd2Ord(h[1], h[2], h[3])
             removed == ContributionOf(cal_policy, h_ord)
         IN /\ \A d \in Earlier.date .. Later.date :
                 ContributionOf(with_h, d) =
                     IF d = h_ord THEN AmtZero ELSE ContributionOf(cal_policy, d)
            /\ Recomputed(call.op, with_h) =
                 Returned(IF DtLt(ref_dt, target_dt)
                          THEN AmtAdd(result.val, removed)
                          ELSE AmtSub(result.val, removed))

\* Biz.business_days over a span in which a date that is not yet a holiday
\* contributes a full day, with a day after it contributing too.
C9_Witness ==
    /\ call.op = "Biz.business_days"
    /\ result.kind = "return"
    /\ \E h \in HolidayCandidates \ cal_policy.holidays :
         /\ ContributionOf(cal_policy, Ymd2Ord(h[1], h[2], h[3])) = AmtOne(cal_policy)
         /\ AmtLt(AmtZero, ContributionOf(cal_policy, Ymd2Ord(h[1], h[2], h[3]) + 1))

\* min(max(a, 0.0), 1.0)
ClampToUnit(policy, a) ==
    IF AmtLt(a, AmtZero) THEN AmtZero
    ELSE IF AmtLt(AmtOne(policy), a) THEN AmtOne(policy)
    ELSE a

\* C10: business_day_fraction(instant) is 0 when the instant's date is a
\* holiday or its weekday is not a workday; otherwise it equals
\* (time-of-day - business_start) / (business_end - business_start) clamped
\* to [0, 1]. Stated for policies with start_of_business < end_of_business,
\* where the quotient is defined and Amt carries it.
C10_FractionIsClampedRatio ==
    (/\ call.op = "business_day_fraction"
     /\ cal_policy.start_of_business < cal_policy.end_of_business)
    => Returns(result,
               IF \/ is_holiday(cal_policy, StrfDate(target_dt.date))
                  \/ ~is_workday(cal_policy, Weekday(target_dt.date))
               THEN AmtZero
               ELSE ClampToUnit(cal_policy,
                                Amt(target_dt.sec - cal_policy.start_of_business,
                                    target_dt.us)))

\* A zero-length business day on a day that counts as a business day.
IsZeroLengthBusinessDay ==
    /\ cal_policy.start_of_business = cal_policy.end_of_business
    /\ is_business_day(cal_policy, target_dt.date)

\* The time of day of the target is before, or after, the start of business.
BeforeStart == AmtLt(Amt(target_dt.sec, target_dt.us), Amt(cal_policy.start_of_business, 0))
AfterStart == AmtLt(Amt(cal_policy.start_of_business, 0), Amt(target_dt.sec, target_dt.us))

EveryDayOpen(policy) == [policy EXCEPT !.workdays = 0 .. 6, !.holidays = {}]

C13_IsHolidayByCalendarDate ==
    call.op = "is_holiday"
    => Returns(result, StrfDate(target_dt.date) \in cal_policy.holidays)

\* C14: constructing a Calendar Policy with fiscal_year_start_month outside
\* 1..12 fails with an error, so no policy object with an out-of-range
\* fiscal start month exists.
C14_FiscalStartMonthValidated ==
    /\ (call.op = "CalendarPolicy" /\ call.fiscal_year_start_month \notin 1 .. 12)
       => result.kind = "ValueError"
    /\ cal_policy.fiscal_year_start_month \in 1 .. 12

\* The first day of the fiscal year `fy` of the policy.
FiscalYearStart(policy, fy) == Ymd2Ord(fy, policy.fiscal_year_start_month, 1)

\* C17: for every instant and every fiscal start month s in 1..12,
\* fiscal_year is the instant's calendar year when its month >= s and the
\* calendar year minus 1 otherwise; the instant's date then lies in the
\* twelve months that begin on day 1 of month s of that year.
C17_FiscalYear ==
    call.op = "fiscal_year"
    => /\ Returns(result,
                  IF MonthOf(target_dt.date) >= cal_policy.fiscal_year_start_month
                  THEN YearOf(target_dt.date) ELSE YearOf(target_dt.date) - 1)
       /\ FiscalYearStart(cal_policy, result.val) <= target_dt.date
       /\ target_dt.date < FiscalYearStart(cal_policy, result.val + 1)

\* The fiscal year of an instant in the month before the fiscal start month.
C17_Witness ==
    /\ call.op = "fiscal_year"
    /\ MonthOf(target_dt.date) + 1 = cal_policy.fiscal_year_start_month
    /\ Returns(result, YearOf(target_dt.date) - 1)

\* C18: for every month m in 1..12 and every fiscal start month s in 1..12,
\* fiscal_quarter equals ((m - s) mod 12) // 3 + 1, which is always in
\* {1, 2, 3, 4}; for s = 1 it equals ((m - 1) // 3) + 1.
C18_FiscalQuarter ==
    call.op = "fiscal_quarter"
    => LET m == MonthOf(target_dt.date)
           s == cal_policy.fiscal_year_start_month
       IN /\ Returns(result, (((m - s) % 12) \div 3) + 1)
          /\ result.val \in {1, 2, 3, 4}
          /\ s = 1 => result.val = ((m - 1) \div 3) + 1

\* The fiscal quarter of a month before the fiscal start month: the offset
\* m - s is negative and wraps.
C18_Witness ==
    /\ call.op = "fiscal_quarter"
    /\ MonthOf(target_dt.date) < cal_policy.fiscal_year_start_month
    /\ cal_policy.fiscal_year_start_month = 11
    /\ MonthOf(target_dt.date) = 1
    /\ Returns(result, 1)

\* The days that pass the day check among the dates lo .. hi.
CountingDays(mode, policy, lo, hi) == {d \in lo .. hi : DayCounts(mode, policy, d)}

\* C15: move_n_days(start_date, n) returns start_date unchanged when n = 0,
\* also when start_date fails the day check; for n # 0 it returns the
\* |n|-th date strictly after (n > 0) or strictly before (n < 0) start_date
\* that passes the day check. -1 business day from a Monday that follows a
\* Friday holiday lands on Thursday; +3 business days from Friday
\* 2025-12-05 land on Wednesday 2025-12-10.
C15_MoveNDays ==
    call.op = "move_n_days"
    => /\ result.kind = "return"
       /\ call.n = 0 => result.val = ref_dt.date
       /\ call.n > 0
            => /\ result.val > ref_dt.date
               /\ DayCounts(call.mode, cal_policy, result.val)
               /\ Cardinality(CountingDays(call.mode, cal_policy,
                                           ref_dt.date + 1, result.val)) = call.n
       /\ call.n < 0
            => /\ result.val < ref_dt.date
               /\ DayCounts(call.mode, cal_policy, result.val)
               /\ Cardinality(CountingDays(call.mode, cal_policy,
                                           result.val, ref_dt.date - 1)) = 0 - call.n
       /\ (/\ call.mode = "business" /\ call.n = 0 - 1
           /\ ref_dt.date = Ymd2Ord(2024, 1, 8)
           /\ cal_policy = WithHolidays(DefaultPolicy, {<<2024, 1, 5>>}))
          => result.val = Ymd2Ord(2024, 1, 4)
       /\ (/\ call.mode = "business" /\ call.n = 3
           /\ ref_dt.date = Ymd2Ord(2025, 12, 5)
           /\ cal_policy = DefaultPolicy)
          => result.val = Ymd2Ord(2025, 12, 10)

\* One business day back from Monday 2024-01-08 with Friday 2024-01-05 a
\* holiday: Thursday 2024-01-04.
C15_Witness ==
    /\ call.op = "move_n_days"
    /\ call.mode = "business"
    /\ call.n = 0 - 1
    /\ ref_dt.date = Ymd2Ord(2024, 1, 8)
    /\ cal_policy = WithHolidays(DefaultPolicy, {<<2024, 1, 5>>})
    /\ Returns(result, Ymd2Ord(2024, 1, 4))

\* A day-window query that passed validation.
IsDayWindowCall == call.op \in {"day_in_", "day_decorated"}

\* C16: a business-day window query (in_business_days / biz_day.in_)
\* returns false for every target whose date is not a business day, and a
\* working-day window query returns false for every target whose date is
\* not a workday, also when that date lies between the window's two bound
\* dates.
C16_WindowExcludesSkippedTarget ==
    (/\ IsDayWindowCall
     /\ result.kind = "return"
     /\ ~DayCounts(call.mode, cal_policy, target_dt.date))
    => result.val = FALSE

\* in_business_days answering false for a target that is not a business
\* day and lies between the two bound dates of the window.
C16_Witness ==
    /\ call.op = "day_decorated"
    /\ call.mode = "business"
    /\ call.end # None
    /\ call.start < EndOf(call)
    /\ ~is_business_day(cal_policy, target_dt.date)
    /\ move_n_days("business", cal_policy, ref_dt.date, call.start) <= target_dt.date
    /\ target_dt.date < move_n_days("business", cal_policy, ref_dt.date, EndOf(call))
    /\ Returns(result, FALSE)

\* start <= diff < end
InOffsets(c, diff) == c.start <= diff /\ diff < EndOf(c)

\* Months from year 0 to the month of an instant (January = 0).
MonthsOf(d) == YearOf(d.date) * 12 + (MonthOf(d.date) - 1)

\* The fiscal quarter index fy * 4 + fq - 1 of an instant.
FiscalQuarterIdx(policy, d) ==
    fiscal_year(d, policy.fiscal_year_start_month) * 4
        + fiscal_quarter(d, policy.fiscal_year_start_month) - 1

UnitIdx(unit, d) ==
    CASE unit = "month" -> YearOf(d.date) * 12 + MonthOf(d.date)
      [] unit = "quarter" -> YearOf(d.date) * 4 + ((MonthOf(d.date) - 1) \div 3)
      [] unit = "year" -> YearOf(d.date)

\* C20: for the month, quarter and year units, in_(start, end) is true
\* exactly when start <= idx(target) - idx(reference) < end, idx being
\* year*12+month, year*4+zero-based quarter, or year; that difference is the
\* number of calendar months, quarters or years from the reference's window
\* to the target's, across any number of year boundaries: a target 19
\* months before the reference is in in_(-20, -18) and not in in_(-12, 0).
C20_CalendarWindowsByIndex ==
    (/\ IsWindowCall
     /\ call.unit \in {"month", "quarter", "year"}
     /\ call.start < EndOf(call))
    => /\ Returns(result,
                  InOffsets(call, UnitIdx(call.unit, target_dt)
                                      - UnitIdx(call.unit, ref_dt)))
       /\ LET diff == UnitIdx(call.unit, target_dt) - UnitIdx(call.unit, ref_dt)
          IN /\ DtLe(WindowStart(call.unit, ref_dt, diff), target_dt)
             /\ DtLt(target_dt, WindowStart(call.unit, ref_dt, diff + 1))
       /\ (call.unit = "month" /\ MonthsOf(target_dt) - MonthsOf(ref_dt) = 0 - 19)
          => /\ (call.start = 0 - 20 /\ EndOf(call) = 0 - 18) => Returns(result, TRUE)
             /\ (call.start = 0 - 12 /\ EndOf(call) = 0) => Returns(result, FALSE)

\* A target 19 months before the reference found in in_(-20, -18).
C20_Witness ==
    /\ call.op = "in_"
    /\ call.unit = "month"
    /\ MonthsOf(target_dt) - MonthsOf(ref_dt) = 0 - 19
    /\ call.start = 0 - 20
    /\ EndOf(call) = 0 - 18
    /\ Returns(result, TRUE)

\* C21: with end omitted, between(start, None, inclusive) equals
\* in_(start + o, start + o + 1), where o is 0 for 'both' and 'left' and 1
\* for 'right' and 'neither'.
C21_BetweenSingleUnitShift ==
    (call.op = "between" /\ call.end = None)
    => LET o == IF call.inclusive \in {"right", "neither"} THEN 1 ELSE 0
       IN SameOutcome(result,
                      unit_in_(call.unit, cal_policy, target_dt, ref_dt,
                               call.start + o, Some(call.start + o + 1)))

\* The same statement for UnitName.between alone.
C21_UnitNameShift ==
    call.op = "between" /\ call.class = "UnitName" => C21_BetweenSingleUnitShift

\* C22: with an explicit end, between(start, end, inclusive) equals
\* in_(start + so, end + eo) with (so, eo) = (0, 1) for 'both', (0, 0) for
\* 'left', (1, 1) for 'right' and (1, 0) for 'neither'; when
\* start + so >= end + eo the call raises ValueError.
C22_BetweenExplicitEnd ==
    (call.op = "between" /\ call.end # None)
    => LET so == CASE call.inclusive = "both" -> 0
                   [] call.inclusive = "left" -> 0
                   [] call.inclusive = "right" -> 1
                   [] call.inclusive = "neither" -> 1
           eo == CASE call.inclusive = "both" -> 1
                   [] call.inclusive = "left" -> 0
                   [] call.inclusive = "right" -> 1
                   [] call.inclusive = "neither" -> 0
           adj_start == call.start + so
           adj_end == ValueOf(call.end) + eo
       IN /\ SameOutcome(result,
                         unit_in_(call.unit, cal_policy, target_dt, ref_dt,
                                  adj_start, Some(adj_end)))
          /\ adj_start >= adj_end => result.kind = "ValueError"

\* UnitName.between(0, 1, 'neither') has raised ValueError: the adjusted
\* window is in_(1, 1).
C22_Witness ==
    /\ call.op = "between"
    /\ call.class = "UnitName"
    /\ call.start = 0
    /\ call.end = Some(1)
    /\ call.inclusive = "neither"
    /\ result.kind = "ValueError"

\* C23: thru(start, end) gives the same result or the same error as
\* in_(start, end + 1), and thru(start) equals in_(start, start + 1), for
\* every unit.
C23_ThruIsInclusiveEnd ==
    call.op = "thru"
    => SameOutcome(result,
                   unit_in_(call.unit, cal_policy, target_dt, ref_dt, call.start,
                            Some(IF call.end = None
                                 THEN call.start + 1
                                 ELSE ValueOf(call.end) + 1)))

\* thru(start, start) has answered True where in_(start, start) raises.
C23_Witness ==
    /\ call.op = "thru"
    /\ call.end = Some(call.start)
    /\ Returns(result, TRUE)
    /\ unit_in_(call.unit, cal_policy, target_dt, ref_dt,
                call.start, call.end).kind = "ValueError"

\* C24 as stated: every shortcut returns exactly the value of the
\* single-unit query in_(k) on its unit engine (is_today in_(0),
\* is_yesterday in_(-1), is_tomorrow in_(1), this/last/next likewise), the
\* business-day and working-day units included.
C24_EveryShortcutDelegates ==
    call.op = "shortcut"
    => SameOutcome(result,
                   unit_in_(call.unit, cal_policy, target_dt, ref_dt, call.k, None))

\* C24, amended: is_yesterday and is_tomorrow of the business-day and
\* working-day units raise ValueError; every other shortcut returns exactly
\* the value of in_(k) on its unit engine.
C24_ShortcutsDelegateOrRaise ==
    call.op = "shortcut"
    => IF call.owner = "unit" /\ call.unit \in {"biz_day", "work_day"} /\ call.k # 0
       THEN result.kind = "ValueError"
       ELSE SameOutcome(result,
                        unit_in_(call.unit, cal_policy, target_dt, ref_dt,
                                 call.k, None))

\* biz_day.is_yesterday has raised for a target that biz_day.in_(-1) holds.
C24_Witness ==
    /\ call.op = "shortcut"
    /\ call.owner = "unit"
    /\ call.unit = "biz_day"
    /\ call.k = 0 - 1
    /\ result.kind = "ValueError"
    /\ Returns(unit_in_("biz_day", cal_policy, target_dt, ref_dt, 0 - 1, None), TRUE)

ElapsedUnits == {"minute", "hour", "day"}

\* unit_length in seconds
UnitLength(unit) ==
    CASE unit = "minute" -> 60
      [] unit = "hour" -> 3600
      [] unit = "day" -> 24 * 3600

\* start <= (target - from) / unit_length < end, on exact instants:
\* from + start * unit_length <= target < from + end * unit_length.
ElapsedWithin(from, target, start, end, unit) ==
    /\ DtLe(AddSeconds(from, start * UnitLength(unit)), target)
    /\ DtLt(target, AddSeconds(from, end * UnitLength(unit)))

\* The first instant of the minute, hour or day that holds r.
UnitFloor(unit, r) ==
    CASE unit = "minute" -> DT(r.date, (r.sec \div 60) * 60, 0)
      [] unit = "hour" -> DT(r.date, (r.sec \div 3600) * 3600, 0)
      [] unit = "day" -> DT(r.date, 0, 0)

IsElapsedCall ==
    call.op = "in_" /\ call.unit \in ElapsedUnits /\ result.kind = "return"

RECURSIVE Gcd(_, _)
Gcd(a, b) == IF b = 0 THEN a ELSE Gcd(b, a % b)

\* k times an amount of seconds and microseconds
AmtTimes(a, k) ==
    LET us == a.us * k
    IN Amt(a.s * k + (us \div 1000000), us % 1000000)

\* reference - target, in seconds and microseconds
Elapsed(target, ref) ==
    AmtSub(Amt((ref.date - target.date) * 86400 + ref.sec, ref.us),
           Amt(target.sec, target.us))

\* amount / BusinessSeconds <= elapsed / 86400, cross-multiplied and
\* reduced by the common divisor of the two lengths
NoMoreThanElapsedDays(policy, amount, target, ref) ==
    LET g == Gcd(86400, BusinessSeconds(policy))
    IN AmtLe(AmtTimes(amount, 86400 \div g),
             AmtTimes(Elapsed(target, ref), BusinessSeconds(policy) \div g))

IsBizBusinessDaysReturn ==
    call.op = "Biz.business_days" /\ result.kind = "return" /\ DtLe(target_dt, ref_dt)

SplitsAdditively(mode, policy, a, c) ==
    \A b \in BizInstants :
        (DtLe(a, b) /\ DtLe(b, c))
        => SignedDays(mode, policy, a, c)
           = AmtAdd(SignedDays(mode, policy, a, b), SignedDays(mode, policy, b, c))

\* C27: for every policy with business_start <= business_end and all
\* instants a <= b <= c, business_days(a, c) equals business_days(a, b) +
\* business_days(b, c), and likewise working_days.
C27_SpanSplitsAdditively ==
    (/\ call.op \in UnitDayCountOps
     /\ cal_policy.start_of_business <= cal_policy.end_of_business
     /\ DtLe(target_dt, ref_dt))
    => /\ Returns(result, SignedDays(ModeOf(call.op), cal_policy, target_dt, ref_dt))
       /\ SplitsAdditively(ModeOf(call.op), cal_policy, target_dt, ref_dt)

\* The same statement for policies whose business day has a positive length.
C27_PositiveLengthSplitsAdditively ==
    (/\ call.op \in UnitDayCountOps
     /\ cal_policy.start_of_business < cal_policy.end_of_business
     /\ DtLe(target_dt, ref_dt))
    => /\ Returns(result, SignedDays(ModeOf(call.op), cal_policy, target_dt, ref_dt))
       /\ SplitsAdditively(ModeOf(call.op), cal_policy, target_dt, ref_dt)

\* C28: move_n_days, and with it every business-day and working-day window
\* query, terminates for every policy the dataclass accepts, every start
\* date and every step count, a policy with an empty workday set included:
\* a started call ends, by returning or by raising.
C28_Terminates ==
    (call.op # "none") ~> (call.op # "none" /\ call.pc = "done")

\* move_n_days under a policy with no workday has ended, by the
\* OverflowError of stepping past the end of the calendar.
C28_Witness ==
    /\ call.op = "move_n_days"
    /\ cal_policy.workdays = {}
    /\ call.pc = "done"
    /\ result.kind = "OverflowError"

\* A stepped call that returns gives what move_n_days and the window
\* operators compute in one piece.
StepAgreesWithOperators ==
    (call.op \in {"move_n_days", "unit.in_", "Biz.in_days"}
     /\ call.pc = "done" /\ result.kind = "return")
    => IF call.op = "move_n_days"
       THEN result.val = move_n_days(call.mode, cal_policy, ref_dt.date, call.start)
       ELSE result.val = DayCountInImpl(call.mode, cal_policy, target_dt, ref_dt,
                                        call.start, call.end)

\* The single-unit offsets tried around the reference.
TileRange == (0 - MaxOffset - 2) .. (MaxOffset + 2)

\* The offsets k of TileRange for which unit.in_(k) is true.
Tiles(unit) ==
    {k \in TileRange :
       Returns(in_(unit, cal_policy, target_dt, ref_dt, k, None), TRUE)}

\* The target lies in one of the windows of TileRange, by the calendar's
\* own boundaries (by the fiscal year and quarter numbers for fiscal units).
NearReference(unit) ==
    IF unit \in CalendarUnits
    THEN /\ DtLe(WindowStart(unit, ref_dt, 0 - MaxOffset - 2), target_dt)
         /\ DtLt(target_dt, WindowStart(unit, ref_dt, MaxOffset + 3))
    ELSE LET s == cal_policy.fiscal_year_start_month
             diff == IF unit = "fiscal_year"
                     THEN fiscal_year(target_dt, s) - fiscal_year(ref_dt, s)
                     ELSE FiscalQuarterIdx(cal_policy, target_dt)
                              - FiscalQuarterIdx(cal_policy, ref_dt)
         IN diff \in TileRange

\* C29: for every calendar unit (second .. year) and fiscal unit and every
\* target/reference pair, exactly one k has in_(k) true, and for start < end
\* in_(start, end) is true exactly when that k satisfies start <= k < end:
\* single-unit windows tile the timeline without gaps or overlaps.
C29_SingleUnitWindowsTile ==
    (call.op = "in_" /\ call.start < EndOf(call))
    => LET K == Tiles(call.unit)
       IN /\ Cardinality(K) <= 1
          /\ NearReference(call.unit) => Cardinality(K) = 1
          /\ result.kind = "return"
          /\ result.val <=> (\E k \in K : call.start <= k /\ k < EndOf(call))

\* A target on the first instant of next week: week.in_(1) holds it and
\* week.in_(0) does not.
C29_Witness ==
    /\ call.op = "in_"
    /\ call.unit = "week"
    /\ call.start = 0
    /\ call.end = Some(2)
    /\ target_dt = WindowStart("week", ref_dt, 1)
    /\ Tiles("week") = {1}
    /\ Returns(result, TRUE)

\* The dates a day window is looked for targets in: from two days before
\* the earlier of the lower bound and the reference to two days after the
\* later of the upper bound and the reference.
SearchDates(mode, start, end) ==
    LET lower == move_n_days(mode, cal_policy, ref_dt.date, start)
        upper == move_n_days(mode, cal_policy, ref_dt.date, end)
        first == IF lower < ref_dt.date THEN lower ELSE ref_dt.date
        last == IF upper > ref_dt.date THEN upper ELSE ref_dt.date
    IN (first - 2) .. (last + 2)

\* The target dates for which the window in_(start, end) of `mode` is true.
WindowDates(mode, start, end) ==
    {d \in SearchDates(mode, start, end) :
       Returns(day_count_in_(mode, cal_policy, DT(d, 12 * 3600, 0), ref_dt,
                             start, Some(end)), TRUE)}

\* The reference's own date does not count and the window holds offset 0.
StraddlesSkippedReference(mode, start, end) ==
    /\ ~DayCounts(mode, cal_policy, ref_dt.date)
    /\ start <= 0
    /\ 0 < end

====
